---- MODULE Spec2Model ----
(***************************************************************************)
(* Disruption planning of karpenter-core: consolidation command            *)
(* computation (pkg/controllers/disruption/consolidation.go) and the       *)
(* emptiness planner (pkg/controllers/disruption/emptiness.go).            *)
(*                                                                         *)
(* Prices are integers (the unit is immaterial: only sums and comparisons  *)
(* of prices are used).  An instance type is a number of the catalog; the  *)
(* zone of an offering is folded into the capacity type (one zone).        *)
(***************************************************************************)
EXTENDS Integers, Sequences, FiniteSets, TLC

\* ------------------------------------------------------------------ bounds
\* Number of instance types of the price catalog.
NumTypes == 19
\* Longest candidate list handed to computeConsolidation.
MaxCandidates == 2
\* Largest number of replacement node claims the simulator proposes.
MaxNewNodeClaims == 2
\* Number of replacement launches followed after a command.
MaxLaunches == 2
\* Longest candidate list handed to one Emptiness.ComputeCommand call.
MaxEmptinessCandidates == 3
\* Longest candidate list of a call in a sequence of calls sharing a budget map.
MaxBatch == 2
\* Number of Emptiness.ComputeCommand calls sharing one budget map.
MaxCalls == 2
\* Largest budget of a node pool.
MaxBudget == 2
\* Largest consolidateAfter duration.
MaxDuration == 2
\* Latest instant of the clock and of a condition's last transition.
MaxConsolidationState == 8
MaxTime == 2

\* ------------------------------------------------------- program constants
MinInstanceTypesForSpotToSpotConsolidation == 15

CapacityTypeSpot == "spot"
CapacityTypeOnDemand == "on-demand"
CapacityTypes == {CapacityTypeSpot, CapacityTypeOnDemand}

\* ------------------------------------------------------------ the catalog
InstanceTypes == 1..NumTypes
\* Instance types that have no spot offering.
OnDemandOnlyTypes == {4}
\* Instance types whose spot price equals that of the next cheaper type.
TiedTypes == {3, 17}

SpotPrice(t) == IF t \in TiedTypes THEN t - 1 ELSE t
OnDemandPrice(t) == t + 2

\* it.Offerings.Get(capacityType, zone): the offering and whether it exists.
OfferingsGet(t, ct) ==
    IF ct = CapacityTypeSpot
    THEN IF t \in OnDemandOnlyTypes
         THEN [ok |-> FALSE, Price |-> 0]
         ELSE [ok |-> TRUE, Price |-> SpotPrice(t)]
    ELSE [ok |-> TRUE, Price |-> OnDemandPrice(t)]

\* A price no offering reaches (math.MaxFloat64).
MaxPrice == 2 * (NumTypes + 2) * (MaxCandidates + 1) + 1

\* The price the instance type would launch at under the requirements: spot
\* is preferred when the requirements admit it and the type offers it.
worstLaunchPrice(t, reqs) ==
    IF CapacityTypeSpot \in reqs /\ OfferingsGet(t, CapacityTypeSpot).ok
    THEN OfferingsGet(t, CapacityTypeSpot).Price
    ELSE IF CapacityTypeOnDemand \in reqs /\ OfferingsGet(t, CapacityTypeOnDemand).ok
         THEN OfferingsGet(t, CapacityTypeOnDemand).Price
         ELSE MaxPrice

\* The options strictly cheaper than price, in their order.
filterByPrice(options, reqs, price) ==
    SelectSeq(options, LAMBDA t : worstLaunchPrice(t, reqs) < price)

\* InstanceTypeOptions.Compatible(requirements): the options that have an
\* offering of an admitted capacity type.
Compatible(options, reqs) ==
    SelectSeq(options, LAMBDA t : \E ct \in reqs : OfferingsGet(t, ct).ok)

\* Requirements.Add of a capacity-type requirement "In values": intersection.
RequirementsAdd(reqs, values) == reqs \cap values

\* lo.Slice(s, 0, n)
Slice(s, n) == SubSeq(s, 1, IF Len(s) < n THEN Len(s) ELSE n)

\* ----------------------------------------------------------------- state
VARIABLES
    candidates,      \* the candidates handed to computeConsolidation
    sim,             \* what simulateScheduling answers for them
    featureGate,     \* FeatureGates.SpotToSpotConsolidation
    results,         \* the scheduling results object after the call
    cmd,             \* the Command computeConsolidation returned
    err,             \* the error it returned
    event,           \* the event it published
    pc,              \* "start" before the call, "done" after it
    executed,        \* the command whose replacement was launched last, if any
    launches,        \* replacement launches so far
    disruptionBudgetMapping, \* the budget map shared by the planners of a pass
    ecandidates,     \* the candidates of the last Emptiness.ComputeCommand call
    ecmd,            \* the Command it returned
    eerr,            \* the error it returned
    eligibleNodesGauge, \* the value it set disruptionEligibleNodesGauge to
    budgetInitial,   \* the budget map before the first call
    budgetBefore,    \* the budget map before the last call
    selectedTotal,   \* per pool, the candidates selected over all the calls
    calls,           \* Emptiness.ComputeCommand calls so far
    cn,              \* the candidate handed to the ShouldDisrupt predicates
    now,             \* clock.Now()
    cShould,         \* what consolidation.ShouldDisrupt returned
    cEvent,          \* the event it published
    eShould,         \* what Emptiness.ShouldDisrupt returned
    eEvent,          \* the event it published
    lastConsolidationState, \* consolidation.lastConsolidationState
    consolidationState,     \* what cluster.ConsolidationState() returns
    isConsolidated,  \* what the last IsConsolidated call returned
    lastCall,        \* the last of markConsolidated, IsConsolidated, cluster change
    recorded,        \* the cluster state at the last markConsolidated call
    changedSinceMark \* whether the cluster state changed since that call

consVars == <<candidates, sim, featureGate, results, cmd, err, event, pc, executed, launches>>
emptVars == <<disruptionBudgetMapping, ecandidates, ecmd, eerr, eligibleNodesGauge,
              budgetInitial, budgetBefore, selectedTotal, calls>>
eligVars == <<cn, now, cShould, cEvent, eShould, eEvent>>
markVars == <<lastConsolidationState, consolidationState, isConsolidated, lastCall,
              recorded, changedSinceMark>>
vars == <<consVars, emptVars, eligVars, markVars>>

EmptyCommand == [candidates |-> <<>>, replacements |-> <<>>]

\* getCandidatePrices: the sum of the candidates' offering prices, or an error.
RECURSIVE SumPrices(_)
SumPrices(cs) ==
    IF cs = <<>> THEN 0
    ELSE OfferingsGet(Head(cs).instanceType, Head(cs).capacityType).Price + SumPrices(Tail(cs))

getCandidatePrices_skipMissing(cs) == [price |-> SumPrices(cs), err |-> "nil"]
getCandidatePrices(cs) ==
    IF \E i \in 1..Len(cs) : ~OfferingsGet(cs[i].instanceType, cs[i].capacityType).ok
    THEN [price |-> 0, err |-> "offering"]
    ELSE [price |-> SumPrices(cs), err |-> "nil"]

Outcome(c, e, ev, res) == [cmd |-> c, err |-> e, event |-> ev, results |-> res]

\* The event is published in the single-candidate case only.
SingleEvent(cs, ev) == IF Len(cs) = 1 THEN ev ELSE "none"

\* Command{candidates: candidates}
DeleteCommand(cs) == [candidates |-> cs, replacements |-> <<>>]

ReplaceCommand_noCandidates(cs, res) ==
    [candidates |-> <<>>, replacements |-> res.NewNodeClaims]
\* Command{candidates: candidates, replacements: results.NewNodeClaims}
ReplaceCommand(cs, res) ==
    [candidates |-> cs, replacements |-> res.NewNodeClaims]

notAllScheduled_inverted(res) == res.AllNonPendingPodsScheduled
\* !results.AllNonPendingPodsScheduled()
notAllScheduled(res) == ~res.AllNonPendingPodsScheduled

noNewNodeClaims_less(res) == Len(res.NewNodeClaims) < 0
\* len(results.NewNodeClaims) == 0
noNewNodeClaims(res) == Len(res.NewNodeClaims) = 0

notOneNewNodeClaim_less(res) == Len(res.NewNodeClaims) < 1
\* len(results.NewNodeClaims) != 1
notOneNewNodeClaim(res) == Len(res.NewNodeClaims) # 1

filterReplacementByPrice_discarded(res, price) == res
\* InstanceTypeOptions = filterByPrice(InstanceTypeOptions, Requirements, candidatePrice)
filterReplacementByPrice(res, price) ==
    [res EXCEPT !.NewNodeClaims[1].InstanceTypeOptions =
                    filterByPrice(@, res.NewNodeClaims[1].Requirements, price)]

requireSpot_skipped(res) == res
\* Requirements.Add(capacity-type In [spot])
requireSpot(res) ==
    [res EXCEPT !.NewNodeClaims[1].Requirements = RequirementsAdd(@, {CapacityTypeSpot})]

\* InstanceTypeOptions.Compatible(Requirements), then filterByPrice of those
filterSpotReplacementByPrice(res, price) ==
    [res EXCEPT !.NewNodeClaims[1].InstanceTypeOptions =
                    filterByPrice(Compatible(@, res.NewNodeClaims[1].Requirements),
                                  res.NewNodeClaims[1].Requirements, price)]

\* InstanceTypeOptions = lo.Slice(InstanceTypeOptions, 0, 15)
truncateOptions(res) ==
    [res EXCEPT !.NewNodeClaims[1].InstanceTypeOptions =
                    Slice(@, MinInstanceTypesForSpotToSpotConsolidation)]

multipleCandidates_moreThanTwo(cs) == Len(cs) > 2
\* len(candidates) > 1
multipleCandidates(cs) == Len(cs) > 1

spotToSpotDisabled_inverted(gate) == gate
\* !FeatureGates.SpotToSpotConsolidation
spotToSpotDisabled(gate) == ~gate

computeSpotToSpotConsolidation(gate, cs, res, candidatePrice) ==
    IF spotToSpotDisabled(gate)
    THEN Outcome(EmptyCommand, "nil", SingleEvent(cs, "SpotToSpotConsolidation is disabled"), res)
    ELSE
    LET r1 == requireSpot(res)
        r2 == filterSpotReplacementByPrice(r1, candidatePrice)
        n == Len(r2.NewNodeClaims[1].InstanceTypeOptions)
        r3 == truncateOptions(r2)
    IN  IF n = 0
        THEN Outcome(EmptyCommand, "nil",
                     SingleEvent(cs, "Can't replace spot node with a cheaper spot node"), r2)
        ELSE IF multipleCandidates(cs)
        THEN Outcome(ReplaceCommand(cs, r2), "nil", "none", r2)
        ELSE IF n < MinInstanceTypesForSpotToSpotConsolidation
        THEN Outcome(EmptyCommand, "nil", "SpotToSpotConsolidation requires more options", r2)
        ELSE Outcome(ReplaceCommand(cs, r3), "nil", "none", r3)

allExistingAreSpot_some(cs) ==
    \E i \in 1..Len(cs) : cs[i].capacityType = CapacityTypeSpot
allExistingAreSpot(cs) ==
    \A i \in 1..Len(cs) : cs[i].capacityType = CapacityTypeSpot

isCandidateDeleting_any(e) == TRUE
\* errors.Is(err, errCandidateDeleting)
isCandidateDeleting(e) == e = "errCandidateDeleting"

computeConsolidation(gate, cs, s) ==
    IF s.err # "nil"
    THEN IF isCandidateDeleting(s.err)
         THEN Outcome(EmptyCommand, "nil", "none", s.results)
         ELSE Outcome(EmptyCommand, s.err, "none", s.results)
    ELSE
    LET res == s.results
        cp == getCandidatePrices(cs)
    IN  IF notAllScheduled(res)
        THEN Outcome(EmptyCommand, "nil", SingleEvent(cs, "NonPendingPodSchedulingErrors"), res)
        ELSE IF noNewNodeClaims(res)
        THEN Outcome(DeleteCommand(cs), "nil", "none", res)
        ELSE IF notOneNewNodeClaim(res)
        THEN Outcome(EmptyCommand, "nil",
                     SingleEvent(cs, "Can't remove without creating candidates"), res)
        ELSE IF cp.err # "nil"
        THEN Outcome(EmptyCommand, cp.err, "none", res)
        ELSE IF allExistingAreSpot(cs)
                /\ CapacityTypeSpot \in res.NewNodeClaims[1].Requirements
        THEN computeSpotToSpotConsolidation(gate, cs, res, cp.price)
        ELSE
        LET r1 == filterReplacementByPrice(res, cp.price)
            ctReq == r1.NewNodeClaims[1].Requirements
            r2 == IF CapacityTypeSpot \in ctReq /\ CapacityTypeOnDemand \in ctReq
                  THEN requireSpot(r1)
                  ELSE r1
        IN  IF Len(r1.NewNodeClaims[1].InstanceTypeOptions) = 0
            THEN Outcome(EmptyCommand, "nil",
                         SingleEvent(cs, "Can't replace with a cheaper node"), r1)
            ELSE Outcome(ReplaceCommand(cs, r2), "nil", "none", r2)

\* ------------------------------------------------------------- emptiness
Pools == {"a", "b"}

\* disruptionBudgetMapping[name]: a map read at a missing key gives 0.
MapGet(m, k) == IF k \in DOMAIN m THEN m[k] ELSE 0
\* disruptionBudgetMapping[name]--
MapDecrement(m, k) ==
    [x \in DOMAIN m \cup {k} |-> IF x = k THEN MapGet(m, k) - 1 ELSE m[x]]

isEmptyCandidate_deletingToo(c) == c.pods = 0
\* cn.NodeClaim.DeletionTimestamp.IsZero() && len(cn.pods) == 0
isEmptyCandidate(c) == ~c.deleting /\ c.pods = 0

hasBudget_notNegative(m, c) == MapGet(m, c.nodePool) >= 0
hasBudget_notZero(m, c) == MapGet(m, c.nodePool) # 0
\* disruptionBudgetMapping[candidate.nodePool.Name] > 0
hasBudget(m, c) == MapGet(m, c.nodePool) > 0

\* The loop over the empty candidates: the candidates appended to empty and
\* the budget map it leaves.
RECURSIVE selectWithinBudget(_, _, _)
selectWithinBudget(cs, m, empty) ==
    IF cs = <<>> THEN [empty |-> empty, budget |-> m]
    ELSE LET candidate == Head(cs)
         IN  IF candidate.pods > 0
             THEN selectWithinBudget(Tail(cs), m, empty)
             ELSE IF hasBudget(m, candidate)
             THEN selectWithinBudget(Tail(cs), MapDecrement(m, candidate.nodePool),
                                     Append(empty, candidate))
             ELSE selectWithinBudget(Tail(cs), m, empty)

\* Emptiness.ComputeCommand
emptinessComputeCommand(m, cs) ==
    LET emptyCandidates == SelectSeq(cs, isEmptyCandidate)
        out == selectWithinBudget(emptyCandidates, m, <<>>)
    IN  [cmd |-> DeleteCommand(out.empty), err |-> "nil",
         budget |-> out.budget, gauge |-> Len(cs)]

\* ------------------------------------------------- consolidated state
\* time.Time{}: the value of lastConsolidationState before any call.
ZeroTime == 0

\* cluster.ConsolidationState(): the time stamp of the cluster's last change
\* that matters to consolidation, read without changing it.
ConsolidationState(state) == state

\* c.lastConsolidationState.Equal(c.cluster.ConsolidationState())
IsConsolidated(last, state) == last = ConsolidationState(state)

markConsolidated_lost(last, state) == last
\* c.lastConsolidationState = c.cluster.ConsolidationState()
markConsolidated(last, state) == ConsolidationState(state)

\* ----------------------------------------------------------- eligibility
WhenUnderutilized == "WhenUnderutilized"
WhenEmpty == "WhenEmpty"

\* ConsolidateAfter != nil && ConsolidateAfter.Duration == nil
consolidationDisabled(c) == c.consolidateAfter.present /\ ~c.consolidateAfter.hasDuration

Verdict(r, ev) == [result |-> r, event |-> ev]

consolidationShouldDisrupt_noDisabledCheck(c) ==
    IF c.doNotConsolidate
    THEN Verdict("false", "do-not-consolidate annotation exists")
    ELSE IF c.consolidationPolicy # WhenUnderutilized
    THEN Verdict("false", "none")
    ELSE Verdict("true", "none")
consolidationShouldDisrupt_policyFirst(c) ==
    IF c.consolidationPolicy # WhenUnderutilized
    THEN Verdict("false", "none")
    ELSE IF c.doNotConsolidate
    THEN Verdict("false", "do-not-consolidate annotation exists")
    ELSE IF consolidationDisabled(c)
    THEN Verdict("false", "NodePool has consolidation disabled")
    ELSE Verdict("true", "none")
\* consolidation.ShouldDisrupt
consolidationShouldDisrupt(c) ==
    IF c.doNotConsolidate
    THEN Verdict("false", "do-not-consolidate annotation exists")
    ELSE IF c.consolidationPolicy # WhenUnderutilized
    THEN Verdict("false", "none")
    ELSE IF consolidationDisabled(c)
    THEN Verdict("false", "NodePool has consolidation disabled")
    ELSE Verdict("true", "none")

cooldownElapsed_after(c, t) == t > c.lastTransitionTime + c.consolidateAfter.Duration
\* !clock.Now().Before(LastTransitionTime.Add(*ConsolidateAfter.Duration))
cooldownElapsed(c, t) == ~(t < c.lastTransitionTime + c.consolidateAfter.Duration)

\* Emptiness.ShouldDisrupt.  The right operand of && is evaluated only when
\* the Empty condition is true; it dereferences ConsolidateAfter, which faults
\* when consolidateAfter is absent.
emptinessShouldDisrupt(c, t) ==
    IF c.consolidationPolicy # WhenEmpty
    THEN Verdict("false", "none")
    ELSE IF consolidationDisabled(c)
    THEN Verdict("false", "NodePool has consolidation disabled")
    ELSE IF c.emptyCondition # "True"
    THEN Verdict("false", "none")
    ELSE IF ~c.consolidateAfter.present
    THEN Verdict("panic", "none")
    ELSE IF cooldownElapsed(c, t)
    THEN Verdict("true", "none")
    ELSE Verdict("false", "none")

\* ------------------------------------------------------------------ inputs
\* Candidates are of the dearest type, or of a type without a spot offering
\* (whose price as a spot candidate cannot be resolved).
CandidateTypes == {t \in InstanceTypes : t = NumTypes \/ t \in OnDemandOnlyTypes}
Candidates == [instanceType : CandidateTypes, capacityType : CapacityTypes]

SeqsUpTo(S, n) == UNION {[1..k -> S] : k \in 1..n}

\* The option lists of a proposed replacement: the types 1..hi, cheapest first
\* or dearest first (the simulator does not order its options by price).
Ascending(hi) == [i \in 1..hi |-> i]
Descending(hi) == [i \in 1..hi |-> hi + 1 - i]
OptionLists == {Ascending(hi) : hi \in 0..NumTypes} \cup {Descending(hi) : hi \in 0..NumTypes}

NodeClaims == [InstanceTypeOptions : OptionLists,
               Requirements : (SUBSET CapacityTypes) \ {{}}]

NewNodeClaimLists ==
    {<<>>} \cup {[i \in 1..k |-> nc] : nc \in NodeClaims, k \in 1..MaxNewNodeClaims}

NoResults == [AllNonPendingPodsScheduled |-> FALSE, NewNodeClaims |-> <<>>]

\* What simulateScheduling answers: an error, or the scheduling results.
SimAnswers ==
    {[err |-> e, results |-> NoResults] : e \in {"errCandidateDeleting", "other"}}
    \cup {[err |-> "nil", results |-> [AllNonPendingPodsScheduled |-> a, NewNodeClaims |-> l]] :
              a \in BOOLEAN, l \in NewNodeClaimLists}

\* Budget maps: any of the pools may be missing, and an entry may be negative.
BudgetMaps == UNION {[D -> (-1)..MaxBudget] : D \in SUBSET Pools}

\* Candidate lists of at most n candidates, named by their position.
EmptinessCandidates(n, Kinds) ==
    UNION {{[i \in 1..k |-> [name |-> i, nodePool |-> f[i].nodePool,
                             pods |-> f[i].pods, deleting |-> f[i].deleting]] :
               f \in [1..k -> Kinds]} : k \in 0..n}
AnyCandidate == [nodePool : Pools, pods : 0..1, deleting : BOOLEAN]
LiveCandidate == [nodePool : Pools, pods : 0..1, deleting : {FALSE}]

\* consolidateAfter of a node pool: absent (a nil pointer), present with a
\* nil Duration, or present with a Duration.
ConsolidateAfterAbsent == [present |-> FALSE, hasDuration |-> FALSE, Duration |-> 0]
ConsolidateAfterNever == [present |-> TRUE, hasDuration |-> FALSE, Duration |-> 0]
ConsolidateAfters ==
    {ConsolidateAfterAbsent, ConsolidateAfterNever}
    \cup {[present |-> TRUE, hasDuration |-> TRUE, Duration |-> d] : d \in 0..MaxDuration}

\* The candidates of the ShouldDisrupt predicates.
EligibilityCandidates ==
    [doNotConsolidate : BOOLEAN,
     consolidationPolicy : {WhenUnderutilized, WhenEmpty, ""},
     consolidateAfter : ConsolidateAfters,
     emptyCondition : {"absent", "True", "False"},
     lastTransitionTime : 0..MaxTime,
     disruptionCost : 0..1,
     pods : 0..1]

\* ------------------------------------------------------------- operations
ConsolidationIdle ==
    /\ candidates = <<>>
    /\ sim = [err |-> "nil", results |-> NoResults]
    /\ featureGate = FALSE
    /\ results = NoResults
    /\ cmd = EmptyCommand
    /\ err = "nil"
    /\ event = "none"
    /\ pc = "idle"
    /\ executed = <<>>
    /\ launches = 0

EmptinessStart ==
    /\ disruptionBudgetMapping \in BudgetMaps
    /\ budgetInitial = disruptionBudgetMapping
    /\ budgetBefore = disruptionBudgetMapping
    /\ ecmd = EmptyCommand
    /\ eerr = "nil"
    /\ eligibleNodesGauge = 0
    /\ selectedTotal = [p \in Pools |-> 0]
    /\ calls = 0

EmptinessIdle ==
    /\ disruptionBudgetMapping = <<>>
    /\ budgetInitial = <<>>
    /\ budgetBefore = <<>>
    /\ ecandidates = <<>>
    /\ ecmd = EmptyCommand
    /\ eerr = "nil"
    /\ eligibleNodesGauge = 0
    /\ selectedTotal = [p \in Pools |-> 0]
    /\ calls = 0

EligibilityIdle ==
    /\ cn = [doNotConsolidate |-> FALSE, consolidationPolicy |-> "",
             consolidateAfter |-> ConsolidateAfterAbsent, emptyCondition |-> "absent",
             lastTransitionTime |-> 0, disruptionCost |-> 0, pods |-> 0]
    /\ now = 0
    /\ cShould = "unset"
    /\ cEvent = "none"
    /\ eShould = "unset"
    /\ eEvent = "none"

\* The zero time.Time of a consolidation that never marked, and a cluster
\* whose consolidation state was set once.
ConsolidatedIdle ==
    /\ lastConsolidationState = ZeroTime
    /\ consolidationState = 1
    /\ isConsolidated = "unset"
    /\ lastCall = "none"
    /\ recorded = ZeroTime
    /\ changedSinceMark = FALSE

Init ==
    /\ candidates \in SeqsUpTo(Candidates, MaxCandidates)
    /\ sim \in SimAnswers
    /\ featureGate \in BOOLEAN
    /\ results = NoResults
    /\ cmd = EmptyCommand
    /\ err = "nil"
    /\ event = "none"
    /\ pc = "start"
    /\ executed = <<>>
    /\ launches = 0
    /\ EmptinessIdle
    /\ EligibilityIdle
    /\ ConsolidatedIdle

\* One call of computeConsolidation on the candidates.
ComputeConsolidation ==
    /\ pc = "start"
    /\ LET out == computeConsolidation(featureGate, candidates, sim)
       IN  /\ cmd' = out.cmd
           /\ err' = out.err
           /\ event' = out.event
           /\ results' = out.results
    /\ pc' = "done"
    /\ UNCHANGED <<candidates, sim, featureGate, executed, launches>>
    /\ UNCHANGED <<emptVars, eligVars, markVars>>

\* The orchestration queue executes a single-node command that has a
\* replacement: the replacement is launched as one of its instance-type
\* options, with a capacity type its requirement admits, and the launched
\* node is the candidate of the next single-node call; the simulator's answer
\* and the catalog stay as they are.
Launch ==
    /\ pc = "done"
    /\ launches < MaxLaunches
    /\ Len(cmd.candidates) = 1
    /\ Len(cmd.replacements) = 1
    /\ \E i \in 1..Len(cmd.replacements[1].InstanceTypeOptions),
          ct \in cmd.replacements[1].Requirements :
          LET t == cmd.replacements[1].InstanceTypeOptions[i]
          IN  /\ OfferingsGet(t, ct).ok
              /\ candidates' = <<[instanceType |-> t, capacityType |-> ct]>>
    /\ executed' = <<[candidates |-> candidates, cmd |-> cmd]>>
    /\ launches' = launches + 1
    /\ pc' = "start"
    /\ UNCHANGED <<sim, featureGate, results, cmd, err, event>>
    /\ UNCHANGED <<emptVars, eligVars, markVars>>

Next == ComputeConsolidation \/ Launch

Spec == Init /\ [][Next]_vars

\* Per pool, the number of candidates of cs that belong to it.
CountOfPool(cs, p) == Len(SelectSeq(cs, LAMBDA c : c.nodePool = p))

\* One call of Emptiness.ComputeCommand on cs with the shared budget map.
EmptinessComputeCommand(cs) ==
    /\ LET out == emptinessComputeCommand(disruptionBudgetMapping, cs)
       IN  /\ ecmd' = out.cmd
           /\ eerr' = out.err
           /\ eligibleNodesGauge' = out.gauge
           /\ disruptionBudgetMapping' = out.budget
           /\ selectedTotal' =
                  [p \in Pools |-> selectedTotal[p] + CountOfPool(out.cmd.candidates, p)]
    /\ ecandidates' = cs
    /\ budgetBefore' = disruptionBudgetMapping
    /\ calls' = calls + 1
    /\ UNCHANGED budgetInitial
    /\ UNCHANGED <<consVars, eligVars, markVars>>

\* A single call, on any budget map and any candidate list.
InitEmptiness ==
    /\ EmptinessStart
    /\ ecandidates \in EmptinessCandidates(MaxEmptinessCandidates, AnyCandidate)
    /\ ConsolidationIdle
    /\ EligibilityIdle
    /\ ConsolidatedIdle

ComputeCommandOnce ==
    /\ calls = 0
    /\ EmptinessComputeCommand(ecandidates)

NextEmptiness == ComputeCommandOnce

SpecEmptiness == InitEmptiness /\ [][NextEmptiness]_vars

\* A sequence of calls sharing one budget map.
InitBudget ==
    /\ EmptinessStart
    /\ ecandidates = <<>>
    /\ ConsolidationIdle
    /\ EligibilityIdle
    /\ ConsolidatedIdle

ComputeCommandAgain ==
    /\ calls < MaxCalls
    /\ \E cs \in EmptinessCandidates(MaxBatch, LiveCandidate) : EmptinessComputeCommand(cs)

NextBudget == ComputeCommandAgain

SpecBudget == InitBudget /\ [][NextBudget]_vars

\* The two ShouldDisrupt predicates on one candidate at one instant.
InitEligibility ==
    /\ cn \in EligibilityCandidates
    /\ now \in 0..MaxTime
    /\ cShould = "unset"
    /\ cEvent = "none"
    /\ eShould = "unset"
    /\ eEvent = "none"
    /\ ConsolidationIdle
    /\ EmptinessIdle
    /\ ConsolidatedIdle

ConsolidationShouldDisrupt ==
    /\ cShould = "unset"
    /\ LET v == consolidationShouldDisrupt(cn)
       IN  cShould' = v.result /\ cEvent' = v.event
    /\ UNCHANGED <<cn, now, eShould, eEvent>>
    /\ UNCHANGED <<consVars, emptVars, markVars>>

EmptinessShouldDisrupt ==
    /\ eShould = "unset"
    /\ LET v == emptinessShouldDisrupt(cn, now)
       IN  eShould' = v.result /\ eEvent' = v.event
    /\ UNCHANGED <<cn, now, cShould, cEvent>>
    /\ UNCHANGED <<consVars, emptVars, markVars>>

NextEligibility == ConsolidationShouldDisrupt \/ EmptinessShouldDisrupt

SpecEligibility == InitEligibility /\ [][NextEligibility]_vars

\* c.markConsolidated()
MarkConsolidated ==
    /\ lastConsolidationState' = markConsolidated(lastConsolidationState, consolidationState)
    /\ recorded' = consolidationState
    /\ changedSinceMark' = FALSE
    /\ lastCall' = "markConsolidated"
    /\ UNCHANGED <<consolidationState, isConsolidated>>
    /\ UNCHANGED <<consVars, emptVars, eligVars>>

\* c.IsConsolidated()
IsConsolidatedCall ==
    /\ isConsolidated' = (IF IsConsolidated(lastConsolidationState, consolidationState)
                          THEN "true" ELSE "false")
    /\ lastCall' = "IsConsolidated"
    /\ UNCHANGED <<lastConsolidationState, consolidationState, recorded, changedSinceMark>>
    /\ UNCHANGED <<consVars, emptVars, eligVars>>

\* The cluster changes in a way that matters to consolidation: its
\* consolidation state becomes a later time stamp.
ClusterChange ==
    /\ \E t \in (consolidationState + 1)..MaxConsolidationState : consolidationState' = t
    /\ changedSinceMark' = TRUE
    /\ lastCall' = "change"
    /\ UNCHANGED <<lastConsolidationState, isConsolidated, recorded>>
    /\ UNCHANGED <<consVars, emptVars, eligVars>>

InitConsolidated ==
    /\ ConsolidatedIdle
    /\ ConsolidationIdle
    /\ EmptinessIdle
    /\ EligibilityIdle

NextConsolidated == MarkConsolidated \/ IsConsolidatedCall \/ ClusterChange

SpecConsolidated == InitConsolidated /\ [][NextConsolidated]_vars

\* ---------------------------------------------------- consolidation claims
Done == pc = "done"
\* The simulator answered without an error.
Simulated == Done /\ sim.err = "nil"
SimClaims == sim.results.NewNodeClaims
PodsScheduled == sim.results.AllNonPendingPodsScheduled
Unpriced(c) == ~OfferingsGet(c.instanceType, c.capacityType).ok
AllPriced == \A i \in 1..Len(candidates) : ~Unpriced(candidates[i])
CandidatePrice == SumPrices(candidates)
\* Exactly one replacement proposed, and every candidate price resolved.
OneReplacement == Simulated /\ PodsScheduled /\ Len(SimClaims) = 1 /\ AllPriced
SpotToSpotPath ==
    /\ OneReplacement
    /\ \A i \in 1..Len(candidates) : candidates[i].capacityType = CapacityTypeSpot
    /\ CapacityTypeSpot \in SimClaims[1].Requirements
GeneralPath == OneReplacement /\ ~SpotToSpotPath
Range(f) == {f[i] : i \in DOMAIN f}

\* C1: when the simulation succeeds, schedules every non-pending pod and
\* proposes no replacement, computeConsolidation returns a nil error and the
\* Command of exactly the input candidates, in order, without replacements,
\* whatever the capacity types and whether or not the prices resolve.
C1_DeleteOnly ==
    (Simulated /\ PodsScheduled /\ Len(SimClaims) = 0)
        => (err = "nil" /\ cmd.candidates = candidates /\ cmd.replacements = <<>>)

C1_Witness ==
    /\ Simulated /\ PodsScheduled /\ Len(SimClaims) = 0
    /\ Len(candidates) = 2
    /\ Unpriced(candidates[1])
    /\ candidates[2].capacityType = CapacityTypeOnDemand
    /\ cmd.candidates = candidates

\* C2: when a non-pending pod could not be scheduled, the result is the empty
\* Command and a nil error, whatever the replacements and prices; so a Command
\* with candidates always comes from a simulation that scheduled every pod.
C2_UnschedulableAbandons ==
    /\ (Simulated /\ ~PodsScheduled) => (cmd = EmptyCommand /\ err = "nil")
    /\ (Done /\ cmd.candidates # <<>>) => (sim.err = "nil" /\ PodsScheduled)

C2_Witness ==
    /\ Simulated /\ ~PodsScheduled
    /\ Len(SimClaims) = 1
    /\ AllPriced
    /\ \E i \in 1..Len(SimClaims[1].InstanceTypeOptions) :
           worstLaunchPrice(SimClaims[1].InstanceTypeOptions[i], SimClaims[1].Requirements)
               < CandidatePrice
    /\ cmd = EmptyCommand

\* C3: when the simulation proposes two or more replacements, for one or many
\* candidates, the result is the empty Command and a nil error.
C3_ManyReplacementsRejected ==
    (Simulated /\ Len(SimClaims) >= 2) => (cmd = EmptyCommand /\ err = "nil")

C3_Witness ==
    /\ Simulated /\ PodsScheduled /\ Len(SimClaims) >= 2
    /\ Len(candidates) > 1 /\ AllPriced
    /\ cmd = EmptyCommand

\* C4: a returned Command is empty, or has all the input candidates and at most
\* one replacement; it never has part of the candidates, never replacements
\* without candidates, and it is empty whenever the error is not nil.
C4_CommandShape ==
    Done => /\ \/ cmd = EmptyCommand
               \/ (cmd.candidates = candidates /\ Len(cmd.replacements) <= 1)
            /\ err # "nil" => cmd = EmptyCommand

C4_Witness ==
    /\ SpotToSpotPath /\ featureGate
    /\ Len(candidates) > 1
    /\ cmd.candidates = candidates
    /\ Len(cmd.replacements) = 1

\* The price filterByPrice compares: the option's launch price under the
\* requirements the simulator proposed.
OptionPrice(t) == worstLaunchPrice(t, SimClaims[1].Requirements)

\* C5: on the general path every option kept in the replacement is strictly
\* cheaper than the sum of the candidates' prices (an option of equal price is
\* dropped), and with no strictly cheaper option the result is the empty
\* Command and a nil error.
C5_StrictlyCheaper ==
    GeneralPath =>
        /\ err = "nil"
        /\ IF \E t \in Range(SimClaims[1].InstanceTypeOptions) : OptionPrice(t) < CandidatePrice
           THEN /\ cmd.candidates = candidates
                /\ Len(cmd.replacements) = 1
                /\ \A t \in Range(cmd.replacements[1].InstanceTypeOptions) :
                       /\ t \in Range(SimClaims[1].InstanceTypeOptions)
                       /\ OptionPrice(t) < CandidatePrice
           ELSE cmd = EmptyCommand

\* A command on the general path where an option of equal price was dropped.
C5_Witness ==
    /\ GeneralPath
    /\ Len(cmd.replacements) = 1
    /\ \E t \in Range(SimClaims[1].InstanceTypeOptions) :
           /\ OptionPrice(t) = CandidatePrice
           /\ t \notin Range(cmd.replacements[1].InstanceTypeOptions)
    /\ \E t \in Range(cmd.replacements[1].InstanceTypeOptions) :
           OptionPrice(t) = CandidatePrice - 1

\* Single-candidate spot-to-spot consolidation with the feature enabled.
SpotToSpotSingle == SpotToSpotPath /\ Len(candidates) = 1 /\ featureGate
\* The spot-compatible options strictly cheaper than the candidate.
CheaperSpot ==
    {t \in Range(SimClaims[1].InstanceTypeOptions) :
        /\ OfferingsGet(t, CapacityTypeSpot).ok
        /\ OfferingsGet(t, CapacityTypeSpot).Price < CandidatePrice}
AscendingByPrice(opts) ==
    \A j \in 1..(Len(opts) - 1) : SpotPrice(opts[j]) <= SpotPrice(opts[j + 1])

\* C6: single-candidate spot-to-spot consolidation returns the empty Command
\* when 1 to 14 spot-compatible options are strictly cheaper than the
\* candidate, and with 15 or more a Command whose replacement carries exactly
\* 15 options: the 15 cheapest of the cheaper ones, in ascending price order.
C6_FifteenCheapest ==
    SpotToSpotSingle =>
        LET k == Cardinality(CheaperSpot)
        IN  /\ (k >= 1 /\ k < MinInstanceTypesForSpotToSpotConsolidation) => cmd = EmptyCommand
            /\ k >= MinInstanceTypesForSpotToSpotConsolidation =>
                   /\ cmd.candidates = candidates
                   /\ Len(cmd.replacements) = 1
                   /\ LET kept == cmd.replacements[1].InstanceTypeOptions
                      IN  /\ Len(kept) = MinInstanceTypesForSpotToSpotConsolidation
                          /\ Range(kept) \subseteq CheaperSpot
                          /\ AscendingByPrice(kept)
                          /\ \A t \in Range(kept), u \in CheaperSpot \ Range(kept) :
                                 SpotPrice(t) <= SpotPrice(u)

\* C7: once a single-candidate spot-to-spot Command was executed and its
\* replacement launched as one of the Command's options, the next call on the
\* launched node, with the same options and catalog, returns the empty Command.
C7_NoSpotOscillation ==
    (/\ Done
     /\ executed # <<>>
     /\ featureGate
     /\ executed[1].candidates[1].capacityType = CapacityTypeSpot
     /\ CapacityTypeSpot \in SimClaims[1].Requirements)
        => cmd = EmptyCommand

\* The candidates' offering prices added up, candidate by candidate.
RECURSIVE PriceOfFirst(_)
PriceOfFirst(n) ==
    IF n = 0 THEN 0
    ELSE PriceOfFirst(n - 1)
             + OfferingsGet(candidates[n].instanceType, candidates[n].capacityType).Price
TotalOfferingPrice == PriceOfFirst(Len(candidates))

\* C12: with every pod scheduled and exactly one replacement proposed, a
\* candidate without an offering makes computeConsolidation return the
\* offering error and the empty Command, wherever it stands among the
\* candidates; and when every candidate has an offering, the price the options
\* are compared with is the sum of all the candidates' offering prices: the
\* options left in the replacement are exactly the proposed ones that launch
\* strictly below that sum.
C12_UnpricedCandidateFails ==
    (Simulated /\ PodsScheduled /\ Len(SimClaims) = 1) =>
        /\ ~AllPriced => (err = "offering" /\ cmd = EmptyCommand)
        /\ AllPriced => err = "nil"
        /\ GeneralPath =>
               Range(results.NewNodeClaims[1].InstanceTypeOptions) =
                   {t \in Range(SimClaims[1].InstanceTypeOptions) :
                        OptionPrice(t) < TotalOfferingPrice}
        /\ (SpotToSpotPath /\ featureGate /\ Len(candidates) > 1) =>
               Range(results.NewNodeClaims[1].InstanceTypeOptions) =
                   {t \in Range(SimClaims[1].InstanceTypeOptions) :
                        /\ OfferingsGet(t, CapacityTypeSpot).ok
                        /\ OfferingsGet(t, CapacityTypeSpot).Price < TotalOfferingPrice}

\* A priced candidate followed by one without an offering, and a replacement
\* with options cheaper than the priced candidate: the call fails.
C12_Witness ==
    /\ Simulated /\ PodsScheduled /\ Len(SimClaims) = 1
    /\ Len(candidates) = 2
    /\ ~Unpriced(candidates[1])
    /\ Unpriced(candidates[2])
    /\ \E t \in Range(SimClaims[1].InstanceTypeOptions) : OptionPrice(t) < TotalOfferingPrice
    /\ err = "offering"
    /\ cmd = EmptyCommand

\* C13: when the simulation fails because a candidate is already deleting,
\* computeConsolidation returns the empty Command and a nil error; when it
\* fails with another error, the empty Command and that error.  Either way no
\* price is looked up (a candidate without an offering raises no offering
\* error) and the scheduling results are left as the simulator gave them.
C13_SimulationErrors ==
    (Done /\ sim.err # "nil") =>
        /\ cmd = EmptyCommand
        /\ err = (IF sim.err = "errCandidateDeleting" THEN "nil" ELSE sim.err)
        /\ results = sim.results

\* A simulation that failed with an error other than the sentinel, for
\* candidates one of which has no offering: the simulation's error is returned.
C13_Witness ==
    /\ Done
    /\ sim.err = "other"
    /\ \E i \in 1..Len(candidates) : Unpriced(candidates[i])
    /\ err = "other"
    /\ cmd = EmptyCommand

\* The proposed options that launch strictly below the candidates' price
\* under the proposed requirement.
Cheaper ==
    {t \in Range(SimClaims[1].InstanceTypeOptions) : OptionPrice(t) < CandidatePrice}

\* C16: with exactly one replacement proposed and every price resolved, the
\* spot-to-spot strategy decides exactly when every candidate is spot and the
\* proposed requirement admits spot: then nothing is returned with the feature
\* gate off, nor for a single candidate with fewer than 15 cheaper
\* spot-compatible options, and a returned replacement has spot-offered
\* options only.  In every other case the general path decides: a Command is
\* returned exactly when some option is strictly cheaper, with all the cheaper
\* options, whatever the feature gate and however few the options are.
C16_StrategyChoice ==
    OneReplacement =>
        IF (\A i \in 1..Len(candidates) : candidates[i].capacityType = CapacityTypeSpot)
           /\ CapacityTypeSpot \in SimClaims[1].Requirements
        THEN /\ ~featureGate => cmd = EmptyCommand
             /\ ( /\ Len(candidates) = 1
                  /\ Cardinality(CheaperSpot) < MinInstanceTypesForSpotToSpotConsolidation )
                => cmd = EmptyCommand
             /\ cmd # EmptyCommand =>
                    \A t \in Range(cmd.replacements[1].InstanceTypeOptions) :
                        OfferingsGet(t, CapacityTypeSpot).ok
        ELSE /\ (cmd # EmptyCommand) = (Cheaper # {})
             /\ cmd # EmptyCommand =>
                    Range(cmd.replacements[1].InstanceTypeOptions) = Cheaper
             /\ event \notin {"SpotToSpotConsolidation is disabled",
                              "SpotToSpotConsolidation requires more options"}

\* A spot and an on-demand candidate, a requirement that admits spot, the
\* feature gate off and fewer than 15 cheaper options: the general path
\* returns a Command.
C16_Witness ==
    /\ OneReplacement
    /\ Len(candidates) = 2
    /\ candidates[1].capacityType = CapacityTypeSpot
    /\ candidates[2].capacityType = CapacityTypeOnDemand
    /\ CapacityTypeSpot \in SimClaims[1].Requirements
    /\ ~featureGate
    /\ Cardinality(Cheaper) < MinInstanceTypesForSpotToSpotConsolidation
    /\ cmd.candidates = candidates
    /\ Len(cmd.replacements) = 1

\* C17: the replacement of a returned Command never admits both on-demand
\* and spot.  On the general path a proposed requirement that admits both is
\* narrowed to spot and one that admits a single capacity type is left as it
\* is; on the spot-to-spot path the requirement is spot alone.
C17_OneCapacityType ==
    (Done /\ Len(cmd.replacements) = 1) =>
        LET req == cmd.replacements[1].Requirements
        IN  /\ req # {CapacityTypeOnDemand, CapacityTypeSpot}
            /\ GeneralPath =>
                   req = (IF SimClaims[1].Requirements = {CapacityTypeOnDemand, CapacityTypeSpot}
                          THEN {CapacityTypeSpot}
                          ELSE SimClaims[1].Requirements)
            /\ SpotToSpotPath => req = {CapacityTypeSpot}

\* An on-demand candidate whose replacement was proposed with both capacity
\* types: the Command's replacement admits spot only.
C17_Witness ==
    /\ GeneralPath
    /\ \A i \in 1..Len(candidates) : candidates[i].capacityType = CapacityTypeOnDemand
    /\ SimClaims[1].Requirements = {CapacityTypeOnDemand, CapacityTypeSpot}
    /\ Len(cmd.replacements) = 1
    /\ cmd.replacements[1].Requirements = {CapacityTypeSpot}

\* C18: spot-to-spot consolidation of more than one candidate with the
\* feature enabled applies no minimum and no truncation: whenever some
\* spot-compatible option is strictly cheaper than the candidates' summed
\* price, the Command has all the candidates and one replacement whose options
\* are all those cheaper options, in the proposed order, be they fewer or more
\* than 15.
C18_MultiNodeKeepsAllCheaper ==
    (SpotToSpotPath /\ featureGate /\ Len(candidates) > 1 /\ CheaperSpot # {}) =>
        /\ err = "nil"
        /\ cmd.candidates = candidates
        /\ Len(cmd.replacements) = 1
        /\ cmd.replacements[1].InstanceTypeOptions =
               SelectSeq(SimClaims[1].InstanceTypeOptions, LAMBDA t : t \in CheaperSpot)

\* Two spot candidates replaced by one node with more than 15 options.
C18_Witness ==
    /\ SpotToSpotPath /\ featureGate
    /\ Len(candidates) = 2
    /\ Len(cmd.replacements) = 1
    /\ Len(cmd.replacements[1].InstanceTypeOptions) > MinInstanceTypesForSpotToSpotConsolidation
    /\ cmd.candidates = candidates

ZeroPodsNotDeleting(c) == c.pods = 0 /\ ~c.deleting
OfPool(cs, p) == SelectSeq(cs, LAMBDA c : c.nodePool = p)
EmptyOfPool(cs, p) == SelectSeq(cs, LAMBDA c : ZeroPodsNotDeleting(c) /\ c.nodePool = p)
Min(a, b) == IF a < b THEN a ELSE b

\* C8: for every pool with budget b >= 0 and k empty candidates in the input,
\* Emptiness.ComputeCommand returns the first min(b, k) of them, in the
\* input's order, and leaves the pool's budget at b - min(b, k), whatever the
\* budgets of the other pools.
C8_FirstWithinBudget ==
    calls = 1 =>
        /\ \A p \in Pools :
               LET b == MapGet(budgetBefore, p)
                   e == EmptyOfPool(ecandidates, p)
                   n == Min(b, Len(e))
               IN  b >= 0 =>
                       /\ OfPool(ecmd.candidates, p) = SubSeq(e, 1, n)
                       /\ MapGet(disruptionBudgetMapping, p) = b - n
        /\ ecmd.candidates =
               SelectSeq(ecandidates, LAMBDA c : c \in Range(ecmd.candidates))

\* Three empty candidates of a pool with budget 2: two returned, budget 0.
C8_Witness ==
    /\ calls = 1
    /\ Len(ecandidates) = 3
    /\ \A i \in 1..3 : ZeroPodsNotDeleting(ecandidates[i]) /\ ecandidates[i].nodePool = "a"
    /\ MapGet(budgetBefore, "a") = 2
    /\ ecmd.candidates = SubSeq(ecandidates, 1, 2)
    /\ MapGet(disruptionBudgetMapping, "a") = 0

\* C9: over a sequence of calls sharing one budget map no entry increases, an
\* entry that starts non-negative stays non-negative, the candidates selected
\* for a pool never exceed its initial non-negative budget, and a pool whose
\* entry is zero, negative or absent has no candidate selected and its entry
\* left as it is.
C9_BudgetOnlyConsumed ==
    \A p \in Pools :
        /\ MapGet(disruptionBudgetMapping, p) <= MapGet(budgetBefore, p)
        /\ MapGet(budgetBefore, p) <= MapGet(budgetInitial, p)
        /\ MapGet(budgetInitial, p) >= 0 =>
               /\ MapGet(disruptionBudgetMapping, p) >= 0
               /\ selectedTotal[p] <= MapGet(budgetInitial, p)
        /\ MapGet(budgetBefore, p) <= 0 =>
               /\ OfPool(ecmd.candidates, p) = <<>>
               /\ (p \in DOMAIN disruptionBudgetMapping) = (p \in DOMAIN budgetBefore)
               /\ MapGet(disruptionBudgetMapping, p) = MapGet(budgetBefore, p)

\* Two calls that used up pool a's budget of 2, while pool b, absent from the
\* map, had an empty candidate passed over.
C9_Witness ==
    /\ calls = 2
    /\ MapGet(budgetInitial, "a") = 2
    /\ MapGet(budgetBefore, "a") = 1
    /\ MapGet(disruptionBudgetMapping, "a") = 0
    /\ selectedTotal["a"] = 2
    /\ "b" \notin DOMAIN budgetInitial
    /\ EmptyOfPool(ecandidates, "b") # <<>>
    /\ selectedTotal["b"] = 0
    /\ "b" \notin DOMAIN disruptionBudgetMapping

\* C21: the Command Emptiness.ComputeCommand returns has no replacements and
\* comes with a nil error; each of its candidates is an input candidate with
\* zero pods and no deletion timestamp; and the budget a pool loses is the
\* number of its candidates selected, so a candidate with a pod or with a
\* deletion timestamp is neither selected nor charged, whatever the budget.
C21_OnlyEmptyNotDeleting ==
    calls = 1 =>
        /\ ecmd.replacements = <<>>
        /\ eerr = "nil"
        /\ \A i \in 1..Len(ecmd.candidates) :
               /\ ecmd.candidates[i] \in Range(ecandidates)
               /\ ecmd.candidates[i].pods = 0
               /\ ~ecmd.candidates[i].deleting
        /\ \A p \in Pools :
               MapGet(budgetBefore, p) - MapGet(disruptionBudgetMapping, p)
                   = Len(OfPool(ecmd.candidates, p))

\* A candidate with a pod, a deleting one and an empty one, all of a pool
\* with budget 2: only the empty one is selected and the budget left is 1.
C21_Witness ==
    /\ calls = 1
    /\ Len(ecandidates) = 3
    /\ \A i \in 1..3 : ecandidates[i].nodePool = "a"
    /\ ecandidates[1].pods > 0 /\ ~ecandidates[1].deleting
    /\ ecandidates[2].pods = 0 /\ ecandidates[2].deleting
    /\ ZeroPodsNotDeleting(ecandidates[3])
    /\ MapGet(budgetBefore, "a") = 2
    /\ ecmd.candidates = <<ecandidates[3]>>
    /\ MapGet(disruptionBudgetMapping, "a") = 1

\* ------------------------------------------------------ eligibility claims
\* C10: a candidate whose pool has consolidateAfter present with a nil
\* duration is disrupted by neither consolidation.ShouldDisrupt nor
\* Emptiness.ShouldDisrupt, whatever its policy, cost, pods, Empty condition
\* and the time elapsed.
C10_DisabledNeverDisrupted ==
    (cn.consolidateAfter.present /\ ~cn.consolidateAfter.hasDuration)
        => (cShould \in {"unset", "false"} /\ eShould \in {"unset", "false"})

C10_Witness ==
    /\ cn.consolidateAfter.present /\ ~cn.consolidateAfter.hasDuration
    /\ ~cn.doNotConsolidate
    /\ cn.consolidationPolicy = WhenUnderutilized
    /\ cn.emptyCondition = "True"
    /\ cn.pods = 0
    /\ now >= cn.lastTransitionTime
    /\ cShould = "false"
    /\ cEvent = "NodePool has consolidation disabled"
    /\ eShould = "false"

\* The original wording of C11, which covers both predicates: a candidate
\* carrying the do-not-consolidate annotation "true" gets false from
\* consolidation.ShouldDisrupt and from Emptiness.ShouldDisrupt, each time by
\* the annotation rule, which publishes its event.
C11_MarkedExcludedByBoth ==
    cn.doNotConsolidate =>
        /\ cShould # "unset" =>
               (cShould = "false" /\ cEvent = "do-not-consolidate annotation exists")
        /\ eShould # "unset" =>
               (eShould = "false" /\ eEvent = "do-not-consolidate annotation exists")

\* C11: consolidation.ShouldDisrupt returns false for a candidate carrying
\* the do-not-consolidate annotation "true", by its first rule: whatever the
\* policy and consolidateAfter, the event published is the annotation's, not
\* the later rules'.  Emptiness.ShouldDisrupt has no annotation rule: it
\* returns true, with no event, for an annotated candidate of a WhenEmpty pool
\* with a consolidateAfter duration whose Empty condition is true and whose
\* cooldown has elapsed.
C11_MarkedExcludedByConsolidation ==
    cn.doNotConsolidate =>
        /\ cShould # "unset" =>
               (cShould = "false" /\ cEvent = "do-not-consolidate annotation exists")
        /\ ( /\ eShould # "unset"
             /\ cn.consolidationPolicy = WhenEmpty
             /\ cn.consolidateAfter.present /\ cn.consolidateAfter.hasDuration
             /\ cn.emptyCondition = "True"
             /\ now >= cn.lastTransitionTime + cn.consolidateAfter.Duration )
           => (eShould = "true" /\ eEvent = "none")

\* An annotated candidate of a WhenEmpty pool with consolidation disabled:
\* consolidation.ShouldDisrupt answers with the annotation event although the
\* two later rules would also exclude it; and an annotated candidate that
\* Emptiness.ShouldDisrupt lets through.
C11_Witness ==
    /\ cn.doNotConsolidate
    /\ cn.consolidationPolicy = WhenEmpty
    /\ cn.consolidateAfter.present /\ cn.consolidateAfter.hasDuration
    /\ cn.emptyCondition = "True"
    /\ now >= cn.lastTransitionTime + cn.consolidateAfter.Duration
    /\ cShould = "false"
    /\ cEvent = "do-not-consolidate annotation exists"
    /\ eShould = "true"

\* C20: for a candidate of a WhenEmpty pool with a consolidateAfter duration
\* d, Emptiness.ShouldDisrupt returns true exactly when the Empty condition is
\* true and now is at or after its last transition plus d, the instant of
\* equality included; for a pool of any other policy it returns false.
C20_EmptyAndCooledDown ==
    eShould # "unset" =>
        /\ (cn.consolidationPolicy = WhenEmpty
                /\ cn.consolidateAfter.present /\ cn.consolidateAfter.hasDuration)
           => /\ eShould \in {"true", "false"}
              /\ (eShould = "true") =
                     ( /\ cn.emptyCondition = "True"
                       /\ now >= cn.lastTransitionTime + cn.consolidateAfter.Duration )
        /\ cn.consolidationPolicy # WhenEmpty => eShould = "false"

\* The boundary instant: now is exactly the last transition plus a positive
\* duration, and the candidate is eligible.
C20_Witness ==
    /\ cn.consolidationPolicy = WhenEmpty
    /\ cn.consolidateAfter.present /\ cn.consolidateAfter.hasDuration
    /\ cn.consolidateAfter.Duration > 0
    /\ cn.emptyCondition = "True"
    /\ now = cn.lastTransitionTime + cn.consolidateAfter.Duration
    /\ eShould = "true"

\* C22: Emptiness.ShouldDisrupt is total: whatever the candidate, it returns
\* true or false and never faults, also for a candidate of a WhenEmpty pool
\* without consolidateAfter whose Empty condition is true.
C22_ShouldDisruptTotal ==
    eShould \in {"unset", "true", "false"}

\* ------------------------------------------------ consolidated-state claims
\* C14: after any sequence of markConsolidated calls and cluster changes, a
\* call of IsConsolidated returns true exactly when the cluster's
\* consolidation state equals the one the most recent markConsolidated
\* recorded, that is, exactly when the cluster did not change since that
\* call; and the recorded state is the one of that markConsolidated call,
\* whatever IsConsolidated calls followed it.
C14_ConsolidatedIffUnchanged ==
    recorded # ZeroTime =>
        /\ lastConsolidationState = recorded
        /\ lastCall = "IsConsolidated" =>
               /\ (isConsolidated = "true") = (consolidationState = recorded)
               /\ (isConsolidated = "true") = ~changedSinceMark

\* A cluster that changed and was marked afterwards is found consolidated:
\* the comparison is with the state of the most recent mark.
C14_Witness ==
    /\ recorded > 1
    /\ lastCall = "IsConsolidated"
    /\ isConsolidated = "true"
    /\ consolidationState = recorded

====
